---- MODULE Spec2Model ----
(***************************************************************************)
(* A model of the rparse parser-combinator primitives (src/primitives.rs)  *)
(* and of the arithmetic grammar built from them (src/tests/test_expr.rs). *)
(*                                                                         *)
(* A parser is a closure state -> status<T> in the source.  Here a parser  *)
(* is a record naming the combinator that built it together with the       *)
(* values the closure captured, and Run(p, input) is the call p(input):    *)
(* it dispatches to an operator carrying the source name of the combinator *)
(* whose body is the closure body.  Closures handed to then/sequenceN/     *)
(* chainl1/chainr1 are records too, applied by call1 and call.             *)
(*                                                                         *)
(* status<T> is result<succeeded<T>, failed>:                              *)
(*   [tag |-> "ok",  new_state, value]                                     *)
(*   [tag |-> "err", old_state, err_state, mesg]                           *)
(* and a third outcome, [tag |-> "fail"], stands for the task failing      *)
(* (an assert that does not hold, a division by zero): the call never      *)
(* returns, so no combinator can observe or recover from it.               *)
(***************************************************************************)
EXTENDS Integers, Sequences, FiniteSets, TLC

VARIABLES
    expr_ptr,   \* the forward-reference cell of expr_parser (test_expr.rs:22)
    pc,         \* "construct" | "idle" | "repeat0" | "done" | "failed"
    input,      \* the state {file, text, index, line} the combinators are applied to
    op,         \* the last operation applied: [name |-> ..., and its arguments]
    result,     \* what that operation returned
    output,     \* repeat0's loop variable `output`
    values,     \* repeat0's loop variable `values`
    iters       \* completed iterations of repeat0's loop

vars == <<expr_ptr, pc, input, op, result, output, values, iters>>

----------------------------------------------------------------------------
(* Bounds of the model. *)

\* longest enumerated input text (characters, EOT excluded)
MaxLen == 3
\* most parsers handed to alternative
MaxAlts == 3
\* most tokens of an enumerated operand/operator alternation
MaxToks == 5
\* largest index an operation is started at
MaxStart == 1

----------------------------------------------------------------------------
(* types.rs / misc.rs: states and results. *)

EOT == "EOT"

chars_with_eot(text) == Append(text, EOT)

Ok(new_state, value) == [tag |-> "ok", new_state |-> new_state, value |-> value]

Err(old_state, err_state, mesg) ==
    [tag |-> "err", old_state |-> old_state, err_state |-> err_state, mesg |-> mesg]

TaskFailure == [tag |-> "fail"]

\* log_ok and log_err trace the outcome and wrap it in result::ok / result::err.
log_ok(fun, in, pass) == Ok(pass.new_state, pass.value)

log_err(fun, in, failure) == Err(failure.old_state, failure.err_state, failure.mesg)

\* the character of in.text at 0-based index i
CharAt(in, i) == in.text[i + 1]

----------------------------------------------------------------------------
(* Parser and closure records. *)

\* what stands where a parser was to be built and the task failed instead
NoParser == [k |-> "task_failure"]

\* building one of the parsers q failed the task
Failed(q) == \E i \in DOMAIN q : q[i] = NoParser

(* A combinator evaluates its arguments, q, and returns a closure over     *)
(* them; there are no arguments, and no closure, when building one of them *)
(* failed the task.                                                        *)

mk_fails(mesg) == [k |-> "fails", mesg |-> mesg]
mk_return(value) == [k |-> "return", value |-> value]
mk_then(parser, eval) ==
    CHOOSE r \in {IF Failed(q) THEN NoParser
                   ELSE [k |-> "then", parser |-> q[1], eval |-> eval] :
                   q \in {<<parser>>}} : TRUE
mk__then(parser1, parser2) ==
    CHOOSE r \in {IF Failed(q) THEN NoParser
                   ELSE [k |-> "_then", parser1 |-> q[1], parser2 |-> q[2]] :
                   q \in {<<parser1, parser2>>}} : TRUE
mk_or(parser1, parser2) ==
    CHOOSE r \in {IF Failed(q) THEN NoParser
                   ELSE [k |-> "or", parser1 |-> q[1], parser2 |-> q[2]] :
                   q \in {<<parser1, parser2>>}} : TRUE
mk_alternative(parsers) ==
    CHOOSE r \in {IF Failed(q) THEN NoParser
                   ELSE IF Len(q) = 0 THEN NoParser   \* assert vec::is_not_empty(parsers)
                   ELSE [k |-> "alternative", parsers |-> q] :
                   q \in {parsers}} : TRUE
mk_optional(parser, missing) ==
    CHOOSE r \in {IF Failed(q) THEN NoParser
                   ELSE [k |-> "optional", parser |-> q[1], missing |-> missing] :
                   q \in {<<parser>>}} : TRUE
mk_repeat0(parser) ==
    CHOOSE r \in {IF Failed(q) THEN NoParser
                   ELSE [k |-> "repeat0", parser |-> q[1]] :
                   q \in {<<parser>>}} : TRUE
mk_repeat1(parser, err_mesg) ==
    CHOOSE r \in {IF Failed(q) THEN NoParser
                   ELSE [k |-> "repeat1", parser |-> q[1], err_mesg |-> err_mesg] :
                   q \in {<<parser>>}} : TRUE
mk_list(parser, sep) ==
    CHOOSE r \in {IF Failed(q) THEN NoParser
                   ELSE [k |-> "list", parser |-> q[1], sep |-> q[2]] :
                   q \in {<<parser, sep>>}} : TRUE
mk_chainl1(parser, oper, eval) ==
    CHOOSE r \in {IF Failed(q) THEN NoParser
                   ELSE [k |-> "chainl1", parser |-> q[1], oper |-> q[2], eval |-> eval] :
                   q \in {<<parser, oper>>}} : TRUE
mk_chainr1(parser, oper, eval) ==
    CHOOSE r \in {IF Failed(q) THEN NoParser
                   ELSE [k |-> "chainr1", parser |-> q[1], oper |-> q[2], eval |-> eval] :
                   q \in {<<parser, oper>>}} : TRUE
mk_tag(parser, label) ==
    CHOOSE r \in {IF Failed(q) THEN NoParser
                   ELSE [k |-> "tag", parser |-> q[1], label |-> label] :
                   q \in {<<parser>>}} : TRUE
mk_forward_ref == [k |-> "forward_ref"]
mk_text(s) == [k |-> "text", s |-> s]
mk_digits == [k |-> "digits"]
mk_space0(parser) ==
    CHOOSE r \in {IF Failed(q) THEN NoParser
                   ELSE [k |-> "space0", parser |-> q[1]] :
                   q \in {<<parser>>}} : TRUE
mk_eot == [k |-> "eot"]

\* a closure: the name of the closure expression and what it captured
Fn(f) == [f |-> f]

----------------------------------------------------------------------------
(* sequenceN and chain_suffix are built from then and return alone. *)

sequence2(parser0, parser1, eval) ==
    CHOOSE r \in {IF Failed(q) THEN NoParser
                   ELSE mk_then(q[1], [f |-> "sequence2_a0", parser1 |-> q[2], eval |-> eval]) :
                   q \in {<<parser0, parser1>>}} : TRUE

sequence3(parser0, parser1, parser2, eval) ==
    CHOOSE r \in {IF Failed(q) THEN NoParser
                   ELSE mk_then(q[1], [f |-> "sequence3_a0", parser1 |-> q[2],
                                      parser2 |-> q[3], eval |-> eval]) :
                   q \in {<<parser0, parser1, parser2>>}} : TRUE

sequence4(parser0, parser1, parser2, parser3, eval) ==
    CHOOSE r \in {IF Failed(q) THEN NoParser
                   ELSE mk_then(q[1], [f |-> "sequence4_a0", parser1 |-> q[2],
                                      parser2 |-> q[3], parser3 |-> q[4],
                                      eval |-> eval]) :
                   q \in {<<parser0, parser1, parser2, parser3>>}} : TRUE

chain_suffix(parser, oper) ==
    CHOOSE r \in {IF Failed(q) THEN NoParser
                   ELSE mk_repeat0(mk_then(q[2], [f |-> "chain_suffix_operator",
                                                 parser |-> q[1]])) :
                   q \in {<<parser, oper>>}} : TRUE

----------------------------------------------------------------------------
(* Closures.  call(eval, args) applies a grammar author's closure to its   *)
(* arguments: [failed |-> the call fails the task, value |-> its value].   *)

Returned(v) == [failed |-> FALSE, value |-> v]

Aborted == [failed |-> TRUE, value |-> 0]

\* Rust's int division truncates toward zero; \div rounds down
int_div(lhs, rhs) ==
    LET al == IF lhs < 0 THEN -lhs ELSE lhs
        ar == IF rhs < 0 THEN -rhs ELSE rhs
    IN  IF (lhs < 0) = (rhs < 0) THEN al \div ar ELSE -(al \div ar)

RECURSIVE int_pow(_, _)
int_pow(b, e) == IF e <= 0 THEN 1 ELSE b * int_pow(b, e - 1)

call(eval, args) ==
    CASE eval.f = "plus_sub_expr"  -> Returned(args[3])                 \* {|_a, _b, c, _d| c}
      [] eval.f = "minus_sub_expr" -> Returned(-args[3])                \* {|_a, _b, c, _d| -c}
      [] eval.f = "paren_sub_expr" -> Returned(args[2])                 \* {|_a, b, _c| b}
      [] eval.f = "term_eval" ->                                        \* line 38
            IF args[2] = "*" THEN Returned(args[1] * args[3])
            ELSE IF args[3] = 0 THEN Aborted
            ELSE Returned(int_div(args[1], args[3]))
      [] eval.f = "expr_eval" ->                                        \* line 42
            IF args[2] = "+" THEN Returned(args[1] + args[3])
            ELSE Returned(args[1] - args[3])
      [] eval.f = "everything_b" -> Returned(args[2])                   \* {|_a, b, _c| b}
      [] eval.f = "integer_neg" -> Returned(-args[2])                   \* {|_o, v| -v}
      [] eval.f = "sub" -> Returned(args[1] - args[3])
      [] eval.f = "pow" -> Returned(int_pow(args[1], args[3]))
      [] eval.f = "show" ->
            Returned("(" \o args[1] \o args[2] \o args[3] \o ")")

\* return(eval(...)) inside a closure: the parser, or the task failing
return_of(c) == IF c.failed THEN NoParser ELSE mk_return(c.value)

\* the closures the combinators themselves hand to then, applied to then's value
call1(eval, v) ==
    CASE eval.f = "sequence2_a0" ->
            mk_then(eval.parser1, [f |-> "sequence2_a1", a0 |-> v, eval |-> eval.eval])
      [] eval.f = "sequence2_a1" -> return_of(call(eval.eval, <<eval.a0, v>>))
      [] eval.f = "sequence3_a0" ->
            mk_then(eval.parser1, [f |-> "sequence3_a1", a0 |-> v,
                                   parser2 |-> eval.parser2, eval |-> eval.eval])
      [] eval.f = "sequence3_a1" ->
            mk_then(eval.parser2, [f |-> "sequence3_a2", a0 |-> eval.a0, a1 |-> v,
                                   eval |-> eval.eval])
      [] eval.f = "sequence3_a2" -> return_of(call(eval.eval, <<eval.a0, eval.a1, v>>))
      [] eval.f = "sequence4_a0" ->
            mk_then(eval.parser1, [f |-> "sequence4_a1", a0 |-> v,
                                   parser2 |-> eval.parser2, parser3 |-> eval.parser3,
                                   eval |-> eval.eval])
      [] eval.f = "sequence4_a1" ->
            mk_then(eval.parser2, [f |-> "sequence4_a2", a0 |-> eval.a0, a1 |-> v,
                                   parser3 |-> eval.parser3, eval |-> eval.eval])
      [] eval.f = "sequence4_a2" ->
            mk_then(eval.parser3, [f |-> "sequence4_a3", a0 |-> eval.a0, a1 |-> eval.a1,
                                   a2 |-> v, eval |-> eval.eval])
      [] eval.f = "sequence4_a3" ->
            return_of(call(eval.eval, <<eval.a0, eval.a1, eval.a2, v>>))
      [] eval.f = "chain_suffix_operator" ->
            mk_then(eval.parser, [f |-> "chain_suffix_value", operator |-> v])
      [] eval.f = "chain_suffix_value" -> mk_return(<<eval.operator, v>>)

----------------------------------------------------------------------------
(* The combinators.  Each operator is the body of the closure the          *)
(* combinator of that name returns, with the closure's argument last.      *)

RECURSIVE Run(_, _)

fails(mesg, in) ==
    log_err("fails", in, [old_state |-> in, err_state |-> in, mesg |-> mesg])

return(value, in) ==
    log_ok("return", in, [new_state |-> in, value |-> value])

then(parser, eval, in) ==
    LET r == Run(parser, in)
    IN  IF r.tag = "ok"
        THEN LET r2 == Run(call1(eval, r.value), r.new_state)
             IN  IF r2.tag = "err"
                 THEN log_err("then", in, [r2 EXCEPT !.old_state = in])
                 ELSE r2
        ELSE r

_then(parser1, parser2, in) ==
    LET r == Run(parser1, in)
    IN  IF r.tag = "ok"
        THEN LET r2 == Run(parser2, r.new_state)
             IN  IF r2.tag = "err"
                 THEN log_err("_then", in, [r2 EXCEPT !.old_state = in])
                 ELSE r2
        ELSE r

or(parser1, parser2, in) ==
    LET r1 == Run(parser1, in)
    IN  IF r1.tag = "err"
        THEN LET r2 == Run(parser2, in)
             IN  IF r2.tag = "err"
                 THEN IF r1.err_state.index > r2.err_state.index
                      THEN log_err("or", in, r1)
                      ELSE IF r1.err_state.index < r2.err_state.index
                      THEN log_err("or", in, r2)
                      ELSE log_err("or", in,
                                   [r2 EXCEPT !.mesg = r1.mesg \o " or " \o r2.mesg])
                 ELSE r2
        ELSE r1

\* str::connect
RECURSIVE connect(_, _)
connect(v, sep) ==
    IF Len(v) = 0 THEN ""
    ELSE IF Len(v) = 1 THEN v[1]
    ELSE v[1] \o sep \o connect(Tail(v), sep)

\* alternative whose loop keeps only the last message of a tie
RECURSIVE alternative_from_last(_, _, _, _, _)
alternative_from_last(parsers, in, i, errors, max_index) ==
    IF i > Len(parsers)
    THEN log_err("alternative", in,
                 [old_state |-> in, err_state |-> [in EXCEPT !.index = max_index],
                  mesg |-> connect(errors, " or ")])
    ELSE LET r == Run(parsers[i], in)
         IN  IF r.tag = "ok" THEN log_ok("alternative", in, r)
             ELSE IF r.tag = "fail" THEN r
             ELSE IF r.err_state.index >= max_index
             THEN alternative_from_last(parsers, in, i + 1, <<r.mesg>>, r.err_state.index)
             ELSE alternative_from_last(parsers, in, i + 1, errors, max_index)

\* the while loop of alternative, from `i` on (1-based here), and what follows it
RECURSIVE alternative_from(_, _, _, _, _)
alternative_from(parsers, in, i, errors, max_index) ==
    IF i > Len(parsers)
    THEN log_err("alternative", in,
                 [old_state |-> in, err_state |-> [in EXCEPT !.index = max_index],
                  mesg |-> connect(errors, " or ")])
    ELSE LET r == Run(parsers[i], in)
         IN  IF r.tag = "ok" THEN log_ok("alternative", in, r)
             ELSE IF r.tag = "fail" THEN r
             ELSE IF r.err_state.index > max_index
             THEN alternative_from(parsers, in, i + 1, <<r.mesg>>, r.err_state.index)
             ELSE IF r.err_state.index = max_index
             THEN alternative_from(parsers, in, i + 1, Append(errors, r.mesg), max_index)
             ELSE alternative_from(parsers, in, i + 1, errors, max_index)

alternative(parsers, in) == alternative_from(parsers, in, 1, <<>>, in.index)

\* optional keeping the state its parser failed at
optional_at_failure(parser, missing, in) ==
    LET r == Run(parser, in)
    IN  IF r.tag = "err"
        THEN log_ok("optional", in, [new_state |-> r.err_state, value |-> missing])
        ELSE r

optional(parser, missing, in) ==
    LET r == Run(parser, in)
    IN  IF r.tag = "err"
        THEN log_ok("optional", in, [new_state |-> in, value |-> missing])
        ELSE r

\* one iteration of repeat0's loop: what the loop does next and its variables
repeat0_iter(parser, out, vals) ==
    LET r == Run(parser, out)
    IN  IF r.tag = "ok"
        THEN IF r.new_state.index > out.index       \* the assert
             THEN [next |-> "loop", output |-> r.new_state,
                   values |-> Append(vals, r.value)]
             ELSE [next |-> "fail", output |-> out, values |-> vals]
        ELSE IF r.tag = "err"
        THEN [next |-> "break", output |-> out, values |-> vals]
        ELSE [next |-> "fail", output |-> out, values |-> vals]

RECURSIVE repeat0_loop(_, _, _)
repeat0_loop(parser, out, vals) ==
    LET it == repeat0_iter(parser, out, vals)
    IN  IF it.next = "loop" THEN repeat0_loop(parser, it.output, it.values)
        ELSE it

\* repeat0 returning the state its last, failed iteration reached
repeat0_at_failure(parser, in) ==
    LET l == repeat0_loop(parser, in, <<>>)
        f == Run(parser, l.output)
    IN  IF l.next = "fail" THEN TaskFailure
        ELSE log_ok("repeat0", in, [new_state |-> f.err_state, value |-> l.values])

repeat0(parser, in) ==
    LET l == repeat0_loop(parser, in, <<>>)
    IN  IF l.next = "fail" THEN TaskFailure
        ELSE log_ok("repeat0", in, [new_state |-> l.output, value |-> l.values])

repeat1(parser, err_mesg, in) ==
    LET pass == Run(mk_repeat0(parser), in)
    IN  IF pass.tag # "ok" THEN TaskFailure
        ELSE IF pass.new_state.index > in.index
        THEN log_ok("repeat1", in, pass)
        ELSE log_err("repeat1", in,
                     [old_state |-> in, err_state |-> pass.new_state, mesg |-> err_mesg])

\* list returning the values that follow the separators only
list_without_first(parser, sep, in) ==
    LET term == mk_repeat0(mk__then(sep, parser))
        r == Run(parser, in)
    IN  IF r.tag = "ok"
        THEN LET r2 == Run(term, r.new_state)
             IN  IF r2.tag = "ok" THEN log_ok("list", in, r2)
                 ELSE IF r2.tag = "err"
                 THEN log_err("list", in, [r2 EXCEPT !.old_state = in])
                 ELSE r2
        ELSE r

list(parser, sep, in) ==
    LET term == mk_repeat0(mk__then(sep, parser))
        r == Run(parser, in)
    IN  IF r.tag = "ok"
        THEN LET r2 == Run(term, r.new_state)
             IN  IF r2.tag = "ok"
                 THEN log_ok("list", in, [r2 EXCEPT !.value = <<r.value>> \o r2.value])
                 ELSE IF r2.tag = "err"
                 THEN log_err("list", in, [r2 EXCEPT !.old_state = in])
                 ELSE r2
        ELSE r

\* foldl handing eval the operand first and the accumulator last
RECURSIVE foldl_swapped(_, _, _)
foldl_swapped(eval, z, v) ==
    IF Len(v) = 0 \/ z.failed THEN z
    ELSE foldl_swapped(eval, call(eval, <<v[1][2], v[1][1], z.value>>), Tail(v))

\* vec::foldl(z, v, {|lhs, rhs| eval(lhs, first(rhs), second(rhs))}), z a call's outcome
RECURSIVE foldl(_, _, _)
foldl(eval, z, v) ==
    IF Len(v) = 0 \/ z.failed THEN z
    ELSE foldl(eval, call(eval, <<z.value, v[1][1], v[1][2]>>), Tail(v))

\* foldr going through v from its first element to its last
RECURSIVE foldr_forward(_, _, _)
foldr_forward(eval, v, z) ==
    IF Len(v) = 0 \/ z.failed THEN z
    ELSE foldr_forward(eval, Tail(v), call(eval, <<v[1][1], v[1][2], z.value>>))

\* vec::foldr(v, z, {|lhs, rhs| eval(first(lhs), second(lhs), rhs)}), z a call's outcome
RECURSIVE foldr(_, _, _)
foldr(eval, v, z) ==
    IF Len(v) = 0 \/ z.failed THEN z
    ELSE foldr(eval, SubSeq(v, 1, Len(v) - 1),
               call(eval, <<v[Len(v)][1], v[Len(v)][2], z.value>>))

chainl1(parser, oper, eval, in) ==
    LET r == Run(parser, in)
    IN  IF r.tag = "ok"
        THEN LET r2 == Run(chain_suffix(parser, oper), r.new_state)
             IN  IF r2.tag = "ok"
                 THEN LET value == foldl(eval, Returned(r.value), r2.value)
                      IN  IF value.failed THEN TaskFailure
                          ELSE log_ok("chainl1", in,
                                      [new_state |-> r2.new_state, value |-> value.value])
                 ELSE IF r2.tag = "err"
                 THEN log_err("chainl1", in, [r2 EXCEPT !.old_state = in])
                 ELSE r2
        ELSE r

chainr1(parser, oper, eval, in) ==
    LET r == Run(parser, in)
    IN  IF r.tag = "ok"
        THEN LET r2 == Run(chain_suffix(parser, oper), r.new_state)
             IN  IF r2.tag = "ok"
                 THEN IF Len(r2.value) # 0
                      THEN LET e1 == r.value
                               terms == r2.value
                               ops == [i \in 1..Len(terms) |-> terms[i][1]]
                               parsers == [i \in 1..Len(terms) |-> terms[i][2]]
                               e3 == parsers[Len(parsers)]
                               parsers2 == <<e1>> \o SubSeq(parsers, 1, Len(parsers) - 1)
                               terms2 == [i \in 1..Len(parsers2) |-> <<parsers2[i], ops[i]>>]
                               value == foldr(eval, terms2, Returned(e3))
                           IN  IF value.failed THEN TaskFailure
                               ELSE log_ok("chainr1", in,
                                           [new_state |-> r2.new_state,
                                            value |-> value.value])
                      ELSE log_ok("chainr1", in,
                                  [new_state |-> r2.new_state, value |-> r.value])
                 ELSE IF r2.tag = "err"
                 THEN log_err("chainr1", in, [r2 EXCEPT !.old_state = in])
                 ELSE r2
        ELSE r

\* tag testing the failure index against 0, not against input.index
tag_from_zero(parser, label, in) ==
    LET r == Run(parser, in)
    IN  IF r.tag = "err"
        THEN IF r.err_state.index = 0
             THEN log_err("tag", in, [r EXCEPT !.mesg = label])
             ELSE log_err("tag", in, r)
        ELSE r

tag(parser, label, in) ==
    LET r == Run(parser, in)
    IN  IF r.tag = "err"
        THEN IF r.err_state.index = in.index
             THEN log_err("tag", in, [r EXCEPT !.mesg = label])
             ELSE log_err("tag", in, r)
        ELSE r

\* (*parser)(input), parser being expr_ptr
forward_ref(in) == Run(expr_ptr, in)

----------------------------------------------------------------------------
(* The lexical parsers the grammar of test_expr.rs is built on             *)
(* (parsers.rs: text, integer, space0, eot, everything).                   *)

Digits == <<"0", "1", "2", "3", "4", "5", "6", "7", "8", "9">>

is_digit(ch) == \E d \in 1..10 : Digits[d] = ch

digit_value(ch) == (CHOOSE d \in 1..10 : Digits[d] = ch) - 1

is_space(ch) == ch \in {" ", "\t", "\r", "\n"}

\* reading in.text[in.index] past the end of the vector fails the task
in_bounds(in) == in.index < Len(in.text)

\* text(s), s one character: matches s and returns it
text(s, in) ==
    IF ~in_bounds(in) THEN TaskFailure
    ELSE IF CharAt(in, in.index) = s
    THEN log_ok("text", in, [new_state |-> [in EXCEPT !.index = in.index + 1], value |-> s])
    ELSE log_err("text", in,
                 [old_state |-> in, err_state |-> in, mesg |-> "'" \o s \o "'"])

\* the index after the run of digits that starts at index i
RECURSIVE digits_end(_, _)
digits_end(in, i) ==
    IF i < Len(in.text) /\ is_digit(CharAt(in, i)) THEN digits_end(in, i + 1) ELSE i

\* int::from_str of the characters of in.text at indices i .. j-1
RECURSIVE from_str(_, _, _)
from_str(in, i, j) ==
    IF j <= i THEN 0 ELSE 10 * from_str(in, i, j - 1) + digit_value(CharAt(in, j - 1))

\* match1(is_digit, "digits") turned into an int
digits(in) ==
    IF ~in_bounds(in) THEN TaskFailure
    ELSE LET j == digits_end(in, in.index)
         IN  IF j > in.index
             THEN log_ok("digits", in, [new_state |-> [in EXCEPT !.index = j],
                                        value |-> from_str(in, in.index, j)])
             ELSE log_err("digits", in,
                          [old_state |-> in, err_state |-> in, mesg |-> "digits"])

\* integer := '+' digits | '-' digits | digits
integer ==
    LET case1 == mk__then(mk_text("+"), mk_digits)
        case2 == sequence2(mk_text("-"), mk_digits, Fn("integer_neg"))
        case3 == mk_digits
    IN  mk_or(case1, mk_or(case2, case3))

\* the state after the white space that starts at index i, a line per line ending
RECURSIVE skip_space(_, _, _)
skip_space(in, i, line) ==
    IF i >= Len(in.text) \/ ~is_space(CharAt(in, i))
    THEN [in EXCEPT !.index = i, !.line = line]
    ELSE IF CharAt(in, i) = "\r" /\ i + 1 < Len(in.text) /\ CharAt(in, i + 1) = "\n"
    THEN skip_space(in, i + 2, line + 1)
    ELSE IF CharAt(in, i) \in {"\r", "\n"}
    THEN skip_space(in, i + 1, line + 1)
    ELSE skip_space(in, i + 1, line)

\* parser.space0(): parser, then zero or more white space characters
space0(parser, in) ==
    LET r == Run(parser, in)
    IN  IF r.tag = "ok"
        THEN log_ok("space0", in,
                    [new_state |-> skip_space(r.new_state, r.new_state.index,
                                              r.new_state.line),
                     value |-> r.value])
        ELSE r

eot(in) ==
    IF ~in_bounds(in) THEN TaskFailure
    ELSE IF CharAt(in, in.index) = EOT
    THEN log_ok("eot", in, [new_state |-> [in EXCEPT !.index = in.index + 1], value |-> 0])
    ELSE log_err("eot", in, [old_state |-> in, err_state |-> in, mesg |-> "EOT"])

\* everything := space parser EOT
everything(parser, space) == sequence3(space, parser, mk_eot, Fn("everything_b"))

----------------------------------------------------------------------------
(* p(input) *)

Run(p, in) ==
    CASE p.k = "fails" -> fails(p.mesg, in)
      [] p.k = "return" -> return(p.value, in)
      [] p.k = "then" -> then(p.parser, p.eval, in)
      [] p.k = "_then" -> _then(p.parser1, p.parser2, in)
      [] p.k = "or" -> or(p.parser1, p.parser2, in)
      [] p.k = "alternative" -> alternative(p.parsers, in)
      [] p.k = "optional" -> optional(p.parser, p.missing, in)
      [] p.k = "repeat0" -> repeat0(p.parser, in)
      [] p.k = "repeat1" -> repeat1(p.parser, p.err_mesg, in)
      [] p.k = "list" -> list(p.parser, p.sep, in)
      [] p.k = "chainl1" -> chainl1(p.parser, p.oper, p.eval, in)
      [] p.k = "chainr1" -> chainr1(p.parser, p.oper, p.eval, in)
      [] p.k = "tag" -> tag(p.parser, p.label, in)
      [] p.k = "forward_ref" -> forward_ref(in)
      [] p.k = "text" -> text(p.s, in)
      [] p.k = "digits" -> digits(in)
      [] p.k = "space0" -> space0(p.parser, in)
      [] p.k = "eot" -> eot(in)
      [] p.k = "task_failure" -> TaskFailure

parse(parser, file, txt) ==
    LET chars == chars_with_eot(txt)
        in == [file |-> file, text |-> chars, index |-> 0, line |-> 1]
        r == Run(parser, in)
    IN  IF r.tag = "err" THEN [r EXCEPT !.mesg = "Expected " \o r.mesg] ELSE r

----------------------------------------------------------------------------
(* expr_parser of test_expr.rs. *)

plus_sign == mk_space0(mk_text("+"))
minus_sign == mk_space0(mk_text("-"))
mult_sign == mk_space0(mk_text("*"))
div_sign == mk_space0(mk_text("/"))
left_paren == mk_space0(mk_text("("))
right_paren == mk_space0(mk_text(")"))
int_literal == mk_space0(integer)

expr_ref == mk_forward_ref

\* sub_expr with the closure of its '+' case in its '-' case too
sub_expr_unsigned ==
    mk_alternative(<<
        sequence4(plus_sign, left_paren, expr_ref, right_paren, Fn("plus_sub_expr")),
        sequence4(minus_sign, left_paren, expr_ref, right_paren, Fn("plus_sub_expr")),
        sequence3(left_paren, expr_ref, right_paren, Fn("paren_sub_expr"))>>)

sub_expr ==
    mk_alternative(<<
        sequence4(plus_sign, left_paren, expr_ref, right_paren, Fn("plus_sub_expr")),
        sequence4(minus_sign, left_paren, expr_ref, right_paren, Fn("minus_sub_expr")),
        sequence3(left_paren, expr_ref, right_paren, Fn("paren_sub_expr"))>>)

factor == mk_tag(mk_or(int_literal, sub_expr), "integer or sub-expression")

term == mk_chainl1(factor, mk_or(mult_sign, div_sign), Fn("term_eval"))

expr == mk_chainl1(term, mk_or(plus_sign, minus_sign), Fn("expr_eval"))

start == everything(expr, mk_space0(mk_return(0)))

----------------------------------------------------------------------------
(* The inputs. *)

Range(f) == {f[i] : i \in DOMAIN f}

SeqsUpTo(S, n) == UNION {[1..k -> S] : k \in 0..n}

Alphabet == {"2", "-", "(", "\n"}

Operands == {"2", "3"}

Operators == {"-", "*"}

\* operand (operator operand)*, possibly with one more operator at the end
ChainTexts ==
    {t \in SeqsUpTo(Operands \cup Operators, MaxToks) :
        \A i \in 1..Len(t) : (t[i] \in Operands) = (i % 2 = 1)}

\* the inputs of test_expr.rs
TestTexts == <<
    <<>>,
    <<"2", "3">>,
    <<" ", "5", "7", " ", " ", " ">>,
    <<"\t", "\t", "\n", "-", "1", "0", "0">>,
    <<"+", "1">>,
    <<"+">>,
    <<" ", "5", "7", " ", " ", " ", "2", "0", "0">>,
    <<"(", "2", "3", ")">>,
    <<"(", "(", "2", "3", ")", ")">>,
    <<"(", "2", "3">>,
    <<"(", "(", "2", "3", ")">>,
    <<"-", "(", "2", "3", ")">>,
    <<"+", "(", "5", ")">>,
    <<"2", "*", "3">>,
    <<" ", "4", " ", "/", " ", "2", " ", " ", " ">>,
    <<"4", " ", "*", " ">>,
    <<"4", " ", "*", "*", " ", "1">>,
    <<"4", " ", "%", " ", "1">>,
    <<"2", " ", "*", " ", "3", " ", "/", " ", "6">>,
    <<"3", "+", "2">>,
    <<" ", "3", "\t", "-", "2", " ", " ">>,
    <<"2", " ", "+", " ", "3", "*", "4">>,
    <<"(", "2", " ", "+", " ", "3", ")", "*", "4">>
    >>

MoreTexts == <<
    <<"9", "-", "3", "-", "2">>,
    <<"2", "^", "3", "^", "2">>,
    <<"8", "/", "2", "/", "2">>,
    <<"2", "-", "3", "*", "4">>,
    <<"2", "*", "3", "-", "4">>,
    <<"2", "*", "(", "3", "-", "4", ")">>,
    <<"(", "9", "-", "3", ")", "-", "2">>,
    <<"9", "-", "(", "3", "-", "2", ")">>,
    <<"7", "/", "-", "2">>,
    <<"2", "/", "0">>,
    <<"(", "\n", ")">>,
    <<"(", "2", "\n", "+", "3">>,
    <<"2", "\n", "*", "\n", "3">>,
    <<"(", "(", "(", "2", ")", ")", ")">>,
    <<"(", "(", "(", "2", ")", ")">>,
    <<"2", ",", "3", ",", "2">>,
    <<"2", " ", ",", "\n", "3", ",">>
    >>

Texts == SeqsUpTo(Alphabet, MaxLen) \cup ChainTexts \cup Range(TestTexts) \cup Range(MoreTexts)

\* the line of the character at 0-based index i of txt: one more than the line endings before it
line_at(txt, i) == 1 + Cardinality({j \in 1..i : txt[j] = "\n"})

----------------------------------------------------------------------------
(* The parsers the combinators are applied to. *)

Pool == <<
    mk_text("("),
    mk__then(mk_space0(mk_text("(")), mk_text("2")),
    mk__then(mk_text("("), mk_text("-")),
    mk_fails("boom"),
    mk_return("r"),
    mk__then(mk_text("-"), mk_space0(mk_text("2")))
    >>

\* the parsers of Pool handed to alternative
AltPool == 2..4

RepPool == <<
    mk_text("2"),
    mk_space0(mk_text("-")),
    mk__then(mk_text("("), mk_text("2")),
    mk_return("r"),
    mk_optional(mk_text("2"), "none"),
    mk_repeat0(mk_text("2"))
    >>

ListCases == <<
    [parser |-> mk_digits, sep |-> mk_text("-")],
    [parser |-> mk_or(mk_text("2"), mk_text("3")), sep |-> mk_or(mk_text("-"), mk_text("*"))],
    [parser |-> int_literal, sep |-> mk_space0(mk_text(","))],
    [parser |-> mk_optional(mk_text("2"), "none"), sep |-> mk_text("-")],
    [parser |-> mk_return("r"), sep |-> mk_return("s")]
    >>

ChainCases == <<
    [parser |-> mk_digits, oper |-> mk_text("-"), eval |-> Fn("sub")],
    [parser |-> mk_digits, oper |-> mk_text("^"), eval |-> Fn("pow")],
    [parser |-> mk_or(mk_text("2"), mk_text("3")),
     oper |-> mk_or(mk_text("-"), mk_text("*")), eval |-> Fn("show")],
    [parser |-> factor, oper |-> mk_or(mult_sign, div_sign), eval |-> Fn("term_eval")],
    [parser |-> mk_return("r"), oper |-> mk_return("o"), eval |-> Fn("show")]
    >>

Grammars == <<
    start,
    mk_alternative(<<Pool[2], Pool[3], Pool[6]>>),
    mk_tag(mk_or(Pool[2], Pool[6]), "label"),
    mk_list(int_literal, mk_space0(mk_text(","))),
    mk_repeat1(mk_space0(mk_text("-")), "dashes"),
    mk_chainr1(int_literal, mk_space0(mk_text("^")), Fn("pow")),
    \* building this grammar fails the task: no parse applies the alternative
    mk_or(mk_return(0), mk_optional(mk__then(mk_text("3"), mk_alternative(<<>>)), 0))
    >>

----------------------------------------------------------------------------
(* The state machine. *)

NoOp == [name |-> "none"]
NoResult == [tag |-> "none"]

Init ==
    /\ expr_ptr = mk_return(0)                  \* let expr_ptr = @mut return(0)
    /\ pc = "construct"
    /\ \E t \in Texts : \E i \in 0..MaxStart :
          /\ i <= Len(t)
          /\ input = [file |-> "test", text |-> chars_with_eot(t), index |-> i,
                      line |-> line_at(t, i)]
    /\ op = NoOp
    /\ result = NoResult
    /\ output = input
    /\ values = <<>>
    /\ iters = 0

\* *expr_ptr = expr, the last step of building the grammar
AssignExprPtr ==
    /\ pc = "construct"
    /\ expr_ptr' = expr
    /\ pc' = "idle"
    /\ UNCHANGED <<input, op, result, output, values, iters>>

\* a parser is built and applied to `input` as one call: it returns r, or the
\* task fails while the parser is built or applied
Applied(o, r) ==
    /\ pc = "idle"
    /\ op' = o
    /\ result' = r
    /\ pc' = IF r.tag = "fail" THEN "failed" ELSE "done"
    /\ output' = input
    /\ values' = <<>>
    /\ iters' = 0
    /\ UNCHANGED <<expr_ptr, input>>

ApplyOr ==
    \E i \in DOMAIN Pool : \E j \in DOMAIN Pool :
        Applied([name |-> "or", p1 |-> i, p2 |-> j], Run(mk_or(Pool[i], Pool[j]), input))

ApplyAlternative ==
    \E ps \in SeqsUpTo(AltPool, MaxAlts) :
        Applied([name |-> "alternative", ps |-> ps],
                Run(mk_alternative([i \in DOMAIN ps |-> Pool[ps[i]]]), input))

ApplyOptional ==
    \E i \in DOMAIN Pool : \E missing \in {"none"} :
        Applied([name |-> "optional", p |-> i, missing |-> missing],
                Run(mk_optional(Pool[i], missing), input))

ApplyTag ==
    \E i \in DOMAIN Pool : \E label \in {"label"} :
        Applied([name |-> "tag", p |-> i, label |-> label],
                Run(mk_tag(Pool[i], label), input))

ApplyRepeat1 ==
    \E i \in DOMAIN RepPool :
        Applied([name |-> "repeat1", p |-> i],
                Run(mk_repeat1(RepPool[i], "more"), input))

ApplyList ==
    \E c \in DOMAIN ListCases :
        Applied([name |-> "list", c |-> c],
                Run(mk_list(ListCases[c].parser, ListCases[c].sep), input))

ApplyChainSuffix ==
    \E c \in DOMAIN ChainCases :
        Applied([name |-> "chain_suffix", c |-> c],
                Run(chain_suffix(ChainCases[c].parser, ChainCases[c].oper), input))

ApplyChainl1 ==
    \E c \in DOMAIN ChainCases :
        Applied([name |-> "chainl1", c |-> c],
                Run(mk_chainl1(ChainCases[c].parser, ChainCases[c].oper,
                               ChainCases[c].eval), input))

ApplyChainr1 ==
    \E c \in DOMAIN ChainCases :
        Applied([name |-> "chainr1", c |-> c],
                Run(mk_chainr1(ChainCases[c].parser, ChainCases[c].oper,
                               ChainCases[c].eval), input))

\* parse(g, "test", text): parse makes its own state, index 0 on line 1
ApplyParse ==
    /\ input.index = 0
    /\ \E g \in DOMAIN Grammars :
          Applied([name |-> "parse", g |-> g],
                  parse(Grammars[g], input.file, SubSeq(input.text, 1, Len(input.text) - 1)))

\* repeat0(RepPool[i])(input) is entered: the loop variables are initialised
Repeat0Begin ==
    /\ pc = "idle"
    /\ \E i \in DOMAIN RepPool : op' = [name |-> "repeat0", p |-> i]
    /\ pc' = "repeat0"
    /\ result' = NoResult
    /\ output' = input
    /\ values' = <<>>
    /\ iters' = 0
    /\ UNCHANGED <<expr_ptr, input>>

\* the loop of repeat0 without its assert: any success goes round again
Repeat0IterUnchecked ==
    /\ pc = "repeat0"
    /\ \E r \in {Run(RepPool[op.p], output)} :
           /\ output' = IF r.tag = "ok" THEN r.new_state ELSE output
           /\ values' = IF r.tag = "ok" THEN Append(values, r.value) ELSE values
           /\ iters' = IF r.tag = "ok" THEN iters + 1 ELSE iters
           /\ pc' = IF r.tag = "ok" THEN "repeat0" ELSE "done"
           /\ result' = IF r.tag = "ok" THEN result
                        ELSE log_ok("repeat0", input,
                                    [new_state |-> output, value |-> values])
    /\ UNCHANGED <<expr_ptr, input, op>>

\* one iteration of the loop of repeat0; leaving the loop returns
Repeat0Iter ==
    /\ pc = "repeat0"
    /\ \E it \in {repeat0_iter(RepPool[op.p], output, values)} :
           /\ output' = it.output
           /\ values' = it.values
           /\ iters' = IF it.next = "loop" THEN iters + 1 ELSE iters
           /\ pc' = CASE it.next = "loop" -> "repeat0"
                      [] it.next = "break" -> "done"
                      [] it.next = "fail" -> "failed"
           /\ result' = CASE it.next = "loop" -> result
                          [] it.next = "break" ->
                                log_ok("repeat0", input,
                                       [new_state |-> it.output, value |-> it.values])
                          [] it.next = "fail" -> TaskFailure
    /\ UNCHANGED <<expr_ptr, input, op>>

Next ==
    \/ AssignExprPtr
    \/ ApplyOr
    \/ ApplyAlternative
    \/ ApplyOptional
    \/ ApplyTag
    \/ ApplyRepeat1
    \/ ApplyList
    \/ ApplyChainSuffix
    \/ ApplyChainl1
    \/ ApplyChainr1
    \/ ApplyParse
    \/ Repeat0Begin
    \/ Repeat0Iter

Spec == Init /\ [][Next]_vars

----------------------------------------------------------------------------
(* What the claims are stated with. *)

Front(q) == SubSeq(q, 1, Len(q) - 1)

Last(q) == q[Len(q)]

\* an operation has been applied to `input` and has returned
Returns(name) == pc = "done" /\ op.name = name

\* ms joined with " or ", built from the right end
RECURSIVE JoinOr(_)
JoinOr(ms) == IF Len(ms) = 1 THEN ms[1] ELSE JoinOr(Front(ms)) \o " or " \o Last(ms)

\* what each alternative of the applied or / alternative returns on `input`
Alternatives ==
    IF op.name = "or" THEN <<Run(Pool[op.p1], input), Run(Pool[op.p2], input)>>
    ELSE [i \in DOMAIN op.ps |-> Run(Pool[op.ps[i]], input)]

AllFail(rs) == \A i \in DOMAIN rs : rs[i].tag = "err" /\ rs[i].err_state.index >= input.index

MaxFailureIndex(rs) ==
    CHOOSE m \in {rs[i].err_state.index : i \in DOMAIN rs} :
        \A i \in DOMAIN rs : rs[i].err_state.index <= m

\* the messages of the failures at index m, in the order of rs
MessagesAt(rs, m) ==
    LET at == {i \in DOMAIN rs : rs[i].err_state.index = m}
        \* the i-th smallest element of `at`
        nth[n \in 1..Cardinality(at)] ==
            CHOOSE i \in at : Cardinality({j \in at : j < i}) = n - 1
    IN  [n \in 1..Cardinality(at) |-> rs[nth[n]].mesg]

----------------------------------------------------------------------------
(* C1: when every alternative of or / alternative fails, the reported      *)
(* failure is at the largest of their failure indices and its message is   *)
(* the messages of the alternatives that failed there, in order, joined    *)
(* with " or ".                                                            *)
C1_FurthestFailure ==
    (Returns("or") \/ Returns("alternative")) =>
        LET rs == Alternatives
        IN  AllFail(rs) =>
                /\ result.tag = "err"
                /\ result.err_state.index = MaxFailureIndex(rs)
                /\ result.mesg = JoinOr(MessagesAt(rs, MaxFailureIndex(rs)))

\* three alternatives tried at index 1: one fails there, two fail one character on
C1_Witness ==
    /\ Returns("alternative")
    /\ input.index = 1
    /\ op.ps = <<4, 2, 3>>
    /\ AllFail(Alternatives)
    /\ result.tag = "err"
    /\ result.err_state.index = 2
    /\ result.mesg = "'2' or '-'"

----------------------------------------------------------------------------
(* C2: a failure of parse carries "Expected " followed by the grammar's    *)
(* message, and the line of the input at the reported failure index.       *)
C2_ParseReportsFailureLine ==
    Returns("parse") /\ result.tag = "err" =>
        LET txt == Front(input.text)
            in0 == [file |-> input.file, text |-> input.text, index |-> 0, line |-> 1]
            inner == Run(Grammars[op.g], in0)
        IN  /\ inner.tag = "err"
            /\ result.mesg = "Expected " \o inner.mesg
            /\ result.err_state.index = inner.err_state.index
            /\ result.err_state.line = line_at(txt, result.err_state.index)

----------------------------------------------------------------------------
(* C6: optional returns its parser's success unchanged, and on its         *)
(* parser's failure succeeds with the default value in the input state.    *)
C6_OptionalTotal ==
    Returns("optional") =>
        LET r == Run(Pool[op.p], input)
        IN  /\ result.tag = "ok"
            /\ r.tag = "ok" => result = r
            /\ r.tag = "err" =>
                  /\ result.value = op.missing
                  /\ result.new_state = input

\* the parser failed on a later line than the one it started on
C6_Witness ==
    /\ Returns("optional")
    /\ LET r == Run(Pool[op.p], input)
       IN  /\ r.tag = "err"
           /\ r.err_state.index > input.index
           /\ r.err_state.line > input.line
    /\ result.tag = "ok"
    /\ result.value = "none"
    /\ input.index = 1

----------------------------------------------------------------------------
(* C7: tag passes a success on, replaces the message of a failure at the   *)
(* input index by the label, and passes on unchanged a failure at another  *)
(* index; so the expression grammar reports the label for "" and           *)
(* "digits or '('" for "+".                                                *)
C7_TagZeroProgress ==
    /\ Returns("tag") =>
          LET r == Run(Pool[op.p], input)
          IN  /\ r.tag = "ok" => result = r
              /\ r.tag = "err" /\ r.err_state.index = input.index =>
                    result = [r EXCEPT !.mesg = op.label]
              /\ r.tag = "err" /\ r.err_state.index # input.index => result = r
    /\ Returns("parse") /\ op.g = 1 /\ input.text = <<EOT>> =>
          result.tag = "err" /\ result.mesg = "Expected integer or sub-expression"
    /\ Returns("parse") /\ op.g = 1 /\ input.text = <<"+", EOT>> =>
          result.tag = "err" /\ result.mesg = "Expected digits or '('"

\* a failure after progress, in a call that did not start at index 0
C7_Witness ==
    /\ Returns("tag")
    /\ input.index = 1
    /\ LET r == Run(Pool[op.p], input)
       IN  r.tag = "err" /\ r.err_state.index = 2 /\ result = r
    /\ result.mesg # op.label

----------------------------------------------------------------------------
(* C3: every iteration of repeat0's loop ends the loop with a success that *)
(* keeps the last state, or strictly advances the index, or trips the      *)
(* assert because its parser succeeded without advancing; the loop is left *)
(* after at most as many iterations as characters remain, repeat0 returns  *)
(* no failure, and a parser that can succeed without consuming input is    *)
(* stopped by the assert under repeat0 and repeat1.                        *)

\* the parsers of RepPool that can succeed without consuming input
ZeroProgress == {4, 5, 6}

C3_IterationStep ==
    pc = "repeat0" =>
        LET r == Run(RepPool[op.p], output)
        IN  \/ /\ r.tag = "err"
               /\ pc' = "done"
               /\ result' = Ok(output, values)
            \/ /\ r.tag = "ok"
               /\ pc' = "repeat0"
               /\ output'.index > output.index
               /\ iters' = iters + 1
            \/ /\ r.tag = "ok"
               /\ r.new_state.index <= output.index
               /\ pc' = "failed"

\* what holds whenever repeat0 is running or has ended
C3_LoopBound ==
    /\ op.name = "repeat0" =>
            /\ result.tag # "err"
            /\ iters <= output.index - input.index
            /\ output.index <= Len(input.text)
    /\ op.name \in {"repeat0", "repeat1"} /\ op.p \in ZeroProgress /\ pc # "repeat0" =>
            pc = "failed" /\ result = TaskFailure

\* C3: every step of repeat0's loop ends it with a success, strictly advances
\* the index or trips the assert; repeat0 returns no failure, its iterations
\* never exceed the characters consumed, and a parser that can succeed without
\* consuming input ends repeat0 and repeat1 in the assert.
C3_Repeat0Terminates == [][C3_IterationStep /\ C3_LoopBound']_vars

\* repeat0(optional(text("2"))) went round twice and then tripped the assert
C3_Witness ==
    /\ op.name = "repeat0"
    /\ op.p = 5
    /\ iters >= 2
    /\ pc = "failed"

----------------------------------------------------------------------------
(* Reading (first, second) pairs off the input, for the claims about list  *)
(* and the chains: the complete pairs that follow state st, the state      *)
(* after the last of them, whether a `first` without its `second` follows  *)
(* (dangling), whether a pair was read that does not advance the index     *)
(* (stuck), and whether reading failed the task (aborted).                 *)

RECURSIVE CompletePairs(_, _, _)
CompletePairs(first, second, st) ==
    LET none == [items |-> <<>>, state |-> st, dangling |-> FALSE, stuck |-> FALSE,
                 aborted |-> FALSE]
        r1 == Run(first, st)
    IN  IF r1.tag = "err" THEN none
        ELSE IF r1.tag = "fail" THEN [none EXCEPT !.aborted = TRUE]
        ELSE LET r2 == Run(second, r1.new_state)
             IN  IF r2.tag = "err" THEN [none EXCEPT !.dangling = TRUE]
                 ELSE IF r2.tag = "fail" THEN [none EXCEPT !.aborted = TRUE]
                 ELSE IF r2.new_state.index <= st.index THEN [none EXCEPT !.stuck = TRUE]
                 ELSE LET rest == CompletePairs(first, second, r2.new_state)
                      IN  [rest EXCEPT !.items = <<<<r1.value, r2.value>>>> \o rest.items]

Seconds(items) == [i \in DOMAIN items |-> items[i][2]]

\* eval(... eval(eval(e1, o1, e2), o2, e3) ..., o(n-1), en), items being <<o1, e2>>, ...
RECURSIVE LeftFold(_, _, _)
LeftFold(eval, e1, items) ==
    IF Len(items) = 0 THEN Returned(e1)
    ELSE LET acc == LeftFold(eval, e1, Front(items))
         IN  IF acc.failed THEN acc
             ELSE call(eval, <<acc.value, Last(items)[1], Last(items)[2]>>)

\* eval(e1, o1, eval(e2, o2, ... eval(e(n-1), o(n-1), en) ...))
RECURSIVE RightFold(_, _, _)
RightFold(eval, e1, items) ==
    IF Len(items) = 0 THEN Returned(e1)
    ELSE LET rest == RightFold(eval, items[1][2], Tail(items))
         IN  IF rest.failed THEN rest
             ELSE call(eval, <<e1, items[1][1], rest.value>>)

\* the applied chain's case, its first operand and the pairs that follow it
ChainCase == ChainCases[op.c]
ChainFirst == Run(ChainCase.parser, input)
ChainPairs == CompletePairs(ChainCase.oper, ChainCase.parser, ChainFirst.new_state)

TextIs(t) == input.text = chars_with_eot(t) /\ input.index = 0

----------------------------------------------------------------------------
(* C4: chainl1 returns the left fold of its operands, eval receiving       *)
(* (accumulator, operator, next operand), and the first operand itself     *)
(* when no pair follows; "9-3-2" gives 4 and "2 * 3 / 6" gives 1.          *)
C4_Chainl1LeftFold ==
    /\ op.name = "chainl1" /\ ChainFirst.tag = "ok" /\ ~ChainPairs.stuck
            /\ ~ChainPairs.aborted =>
          LET fold == LeftFold(ChainCase.eval, ChainFirst.value, ChainPairs.items)
          IN  IF fold.failed THEN result = TaskFailure
              ELSE /\ result = Ok(ChainPairs.state, fold.value)
                   /\ Len(ChainPairs.items) = 0 => result.value = ChainFirst.value
    /\ Returns("chainl1") /\ op.c = 1 /\ TextIs(<<"9", "-", "3", "-", "2">>) =>
          result.tag = "ok" /\ result.value = 4
    /\ Returns("chainl1") /\ op.c = 4
            /\ TextIs(<<"2", " ", "*", " ", "3", " ", "/", " ", "6">>) =>
          result.tag = "ok" /\ result.value = 1

\* three operands folded with a subtraction
C4_Witness ==
    /\ Returns("chainl1")
    /\ op.c = 1
    /\ TextIs(<<"9", "-", "3", "-", "2">>)
    /\ Len(ChainPairs.items) = 2
    /\ result.value = 4

----------------------------------------------------------------------------
(* C5: chainr1 returns the right fold of its operands, each operator       *)
(* paired with the operand before it and the last operand the seed, the    *)
(* first operand itself when no pair follows, in the state after the last  *)
(* operand; "2^3^2" gives 512.                                             *)
C5_Chainr1RightFold ==
    /\ op.name = "chainr1" /\ ChainFirst.tag = "ok" /\ ~ChainPairs.stuck
            /\ ~ChainPairs.aborted =>
          LET fold == RightFold(ChainCase.eval, ChainFirst.value, ChainPairs.items)
          IN  IF fold.failed THEN result = TaskFailure
              ELSE /\ result = Ok(ChainPairs.state, fold.value)
                   /\ Len(ChainPairs.items) = 0 => result.value = ChainFirst.value
    /\ Returns("chainr1") /\ op.c = 2 /\ TextIs(<<"2", "^", "3", "^", "2">>) =>
          result.tag = "ok" /\ result.value = 512

\* three operands folded with a power
C5_Witness ==
    /\ Returns("chainr1")
    /\ op.c = 2
    /\ TextIs(<<"2", "^", "3", "^", "2">>)
    /\ Len(ChainPairs.items) = 2
    /\ result.value = 512

----------------------------------------------------------------------------
(* C8: list. *)

ListCase == ListCases[op.c]
ListFirst == Run(ListCase.parser, input)
ListPairs == CompletePairs(ListCase.sep, ListCase.parser, ListFirst.new_state)

\* C8 as claimed: list fails exactly when its first parser fails, with that
\* failure, and otherwise succeeds with the first value and the value of every
\* complete (sep, p) pair, in the state after the last complete pair.
C8_ListAsClaimed ==
    op.name = "list" =>
        /\ (result.tag = "err") <=> (ListFirst.tag = "err")
        /\ ListFirst.tag = "err" => result = ListFirst
        /\ ListFirst.tag # "err" =>
              /\ result.tag = "ok"
              /\ result.value = <<ListFirst.value>> \o Seconds(ListPairs.items)
              /\ result.new_state = ListPairs.state

\* C8 amended: as claimed, unless a (sep, p) pair succeeds without advancing the
\* index: the assert of repeat0 then fails the task and list does not return.
C8_ListUnlessStuck ==
    op.name = "list" =>
        /\ (result.tag = "err") <=> (ListFirst.tag = "err")
        /\ ListFirst.tag = "err" => result = ListFirst
        /\ ListFirst.tag # "err" /\ ~ListPairs.stuck =>
              /\ result.tag = "ok"
              /\ result.value = <<ListFirst.value>> \o Seconds(ListPairs.items)
              /\ result.new_state = ListPairs.state
        /\ ListFirst.tag # "err" /\ ListPairs.stuck => result = TaskFailure

\* two values and a separator left unconsumed after them
C8_Witness ==
    /\ Returns("list")
    /\ ListFirst.tag = "ok"
    /\ Len(ListPairs.items) = 1
    /\ ListPairs.dangling
    /\ Len(result.value) = 2
    /\ result.new_state.index < Len(input.text) - 1

----------------------------------------------------------------------------
(* C10: when an operator is followed by no operand, chain_suffix, chainl1  *)
(* and chainr1 still succeed, with the complete pairs only and in the      *)
(* state after the last complete operand; the expression grammar then      *)
(* fails expecting EOT on "4 * ", "4 ** 1" and "4 % 1".                    *)

ChainStart == IF op.name = "chain_suffix" THEN input ELSE ChainFirst.new_state

PairsFromStart == CompletePairs(ChainCase.oper, ChainCase.parser, ChainStart)

\* C10: an operator whose operand fails is not consumed: the chain succeeds
\* with the fold over the complete pairs in the state after the last complete
\* operand, and the expression grammar then fails expecting EOT.
C10_DanglingOperator ==
    /\ op.name \in {"chain_suffix", "chainl1", "chainr1"}
            /\ (op.name = "chain_suffix" \/ ChainFirst.tag = "ok")
            /\ PairsFromStart.dangling =>
          \/ /\ result.tag = "ok"
             /\ result.new_state = PairsFromStart.state
             /\ op.name = "chain_suffix" => result.value = PairsFromStart.items
             /\ op.name = "chainl1" =>
                   result.value = LeftFold(ChainCase.eval, ChainFirst.value,
                                           PairsFromStart.items).value
             /\ op.name = "chainr1" =>
                   result.value = RightFold(ChainCase.eval, ChainFirst.value,
                                            PairsFromStart.items).value
          \/ /\ op.name # "chain_suffix"
             /\ result = TaskFailure
             /\ LeftFold(ChainCase.eval, ChainFirst.value, PairsFromStart.items).failed
    /\ Returns("parse") /\ op.g = 1
            /\ (TextIs(<<"4", " ", "*", " ">>)
                \/ TextIs(<<"4", " ", "*", "*", " ", "1">>)
                \/ TextIs(<<"4", " ", "%", " ", "1">>)) =>
          /\ result.tag = "err"
          /\ result.mesg = "Expected EOT"
          /\ result.err_state.index = 2

\* a complete pair, then an operator and no operand
C10_Witness ==
    /\ Returns("chainl1")
    /\ ChainFirst.tag = "ok"
    /\ PairsFromStart.dangling
    /\ Len(PairsFromStart.items) = 1
    /\ result.new_state.index = input.index + 3
    /\ CharAt(input, result.new_state.index) \in Operators

----------------------------------------------------------------------------
(* The usual meaning of an arithmetic expression, for C9: the text is cut  *)
(* into tokens, and a token sequence is split at its last binary + or -    *)
(* outside parentheses, else at its last * or / outside parentheses, else  *)
(* it is a number, a signed number, or a parenthesised expression with or  *)
(* without a sign.                                                         *)

White == {" ", "\t", "\r", "\n"}

DigitOf == [c \in {"0", "1", "2", "3", "4", "5", "6", "7", "8", "9"} |->
               CASE c = "0" -> 0 [] c = "1" -> 1 [] c = "2" -> 2 [] c = "3" -> 3
                 [] c = "4" -> 4 [] c = "5" -> 5 [] c = "6" -> 6 [] c = "7" -> 7
                 [] c = "8" -> 8 [] c = "9" -> 9]

Num(v) == [t |-> "num", s |-> "", v |-> v, adj |-> FALSE]

\* a symbol; adj: a digit follows it immediately
Sym(c, adj) == [t |-> "sym", s |-> c, v |-> 0, adj |-> adj]

\* the tokens of txt from position i (1-based) on, acc the number being read
RECURSIVE Tokens(_, _, _, _)
Tokens(txt, i, reading, acc) ==
    IF i > Len(txt) THEN (IF reading THEN <<Num(acc)>> ELSE <<>>)
    ELSE IF txt[i] \in DOMAIN DigitOf
    THEN Tokens(txt, i + 1, TRUE, (IF reading THEN 10 * acc ELSE 0) + DigitOf[txt[i]])
    ELSE (IF reading THEN <<Num(acc)>> ELSE <<>>) \o
         (IF txt[i] \in White THEN <<>>
          ELSE <<Sym(txt[i], i < Len(txt) /\ txt[i + 1] \in DOMAIN DigitOf)>>) \o
         Tokens(txt, i + 1, FALSE, 0)

IsSym(tok, cs) == tok.t = "sym" /\ tok.s \in cs

\* the parentheses open before token i
Depth(ts, i) ==
    Cardinality({j \in 1..(i - 1) : IsSym(ts[j], {"("})})
        - Cardinality({j \in 1..(i - 1) : IsSym(ts[j], {")"})})

\* token i is one of cs, outside parentheses, between two operands
BinaryAt(ts, i, cs) ==
    /\ 1 < i /\ i < Len(ts)
    /\ IsSym(ts[i], cs)
    /\ Depth(ts, i) = 0
    /\ ts[i - 1].t = "num" \/ IsSym(ts[i - 1], {")"})

Largest(S) == CHOOSE i \in S : \A j \in S : j <= i

Malformed == [ok |-> FALSE, v |-> 0]

Quotient(a, b) ==
    LET q == (IF a < 0 THEN -a ELSE a) \div (IF b < 0 THEN -b ELSE b)
    IN  IF (a < 0 /\ b > 0) \/ (a > 0 /\ b < 0) THEN -q ELSE q

Combine(l, c, r) ==
    IF ~l.ok \/ ~r.ok THEN Malformed
    ELSE CASE c = "+" -> [ok |-> TRUE, v |-> l.v + r.v]
           [] c = "-" -> [ok |-> TRUE, v |-> l.v - r.v]
           [] c = "*" -> [ok |-> TRUE, v |-> l.v * r.v]
           [] c = "/" -> IF r.v = 0 THEN Malformed
                         ELSE [ok |-> TRUE, v |-> Quotient(l.v, r.v)]

Signed(c, r) == IF r.ok /\ c = "-" THEN [ok |-> TRUE, v |-> -r.v] ELSE r

\* [ok |-> ts is well formed and divides by no zero, v |-> its value]
RECURSIVE Meaning(_)
Meaning(ts) ==
    LET n == Len(ts)
        adds == {i \in 1..n : BinaryAt(ts, i, {"+", "-"})}
        muls == {i \in 1..n : BinaryAt(ts, i, {"*", "/"})}
        split(i) == Combine(Meaning(SubSeq(ts, 1, i - 1)), ts[i].s,
                            Meaning(SubSeq(ts, i + 1, n)))
    IN  IF adds # {} THEN split(Largest(adds))
        ELSE IF muls # {} THEN split(Largest(muls))
        ELSE IF n = 1 /\ ts[1].t = "num" THEN [ok |-> TRUE, v |-> ts[1].v]
        ELSE IF n = 2 /\ IsSym(ts[1], {"+", "-"}) /\ ts[1].adj /\ ts[2].t = "num"
        THEN Signed(ts[1].s, [ok |-> TRUE, v |-> ts[2].v])
        ELSE IF n >= 3 /\ IsSym(ts[1], {"("}) /\ IsSym(ts[n], {")"})
        THEN Meaning(SubSeq(ts, 2, n - 1))
        ELSE IF n >= 4 /\ IsSym(ts[1], {"+", "-"}) /\ IsSym(ts[2], {"("})
                /\ IsSym(ts[n], {")"})
        THEN Signed(ts[1].s, Meaning(SubSeq(ts, 3, n - 1)))
        ELSE Malformed

\* the meaning of the text of `input`
InputMeaning == Meaning(Tokens(Front(input.text), 1, FALSE, 0))

----------------------------------------------------------------------------
(* C9: the expression grammar gives every well-formed input its usual      *)
(* value: * and / before + and -, equal precedence from the left,          *)
(* parentheses first, white space ignored; and "(23" and "((23)" fail      *)
(* expecting ')' on line 1.                                                *)
C9_ExprValue ==
    op.name = "parse" /\ op.g = 1 =>
        /\ InputMeaning.ok => result.tag = "ok" /\ result.value = InputMeaning.v
        /\ TextIs(<<"2", " ", "+", " ", "3", "*", "4">>) => result.value = 14
        /\ TextIs(<<"(", "2", " ", "+", " ", "3", ")", "*", "4">>) => result.value = 20
        /\ TextIs(<<"3", "+", "2">>) => result.value = 5
        /\ TextIs(<<"(", "(", "2", "3", ")", ")">>) => result.value = 23
        /\ TextIs(<<"-", "(", "2", "3", ")">>) => result.value = -23
        /\ TextIs(<<"(", "2", "3">>) \/ TextIs(<<"(", "(", "2", "3", ")">>) =>
              /\ result.tag = "err"
              /\ result.mesg = "Expected ')'"
              /\ result.err_state.line = 1

\* a well-formed input with a sign, parentheses and both precedences
C9_Witness ==
    /\ Returns("parse")
    /\ op.g = 1
    /\ TextIs(<<"2", "*", "(", "3", "-", "4", ")">>)
    /\ InputMeaning.ok
    /\ result.value = -2

====
